---- MODULE Spec2Model ----
(***************************************************************************)
(* A model of DBLP.py: the crawl of the configured conferences             *)
(* (get_paper_info, process_conference, main), the CSV writer              *)
(* (save_to_csv), the yearly aggregation (plot_paper_trend), the keyword   *)
(* analysis (extract_keywords, plot_keywords_bar, generate_wordcloud) and  *)
(* the forecast (predict_next_year).                                       *)
(*                                                                         *)
(* Text is a sequence of one-character strings, so that str(), int(),      *)
(* strip(), lower(), re.sub(), split(), join() and the CSV quoting are     *)
(* computed character by character.  A Python float is a sign, an odd      *)
(* binary mantissa of at most MantBits bits and an exponent, and every     *)
(* float operation rounds to nearest, ties to even, as IEEE 754 binary64   *)
(* does.                                                                   *)
(***************************************************************************)
EXTENDS Integers, Sequences, FiniteSets, TLC

Max(a, b) == IF a >= b THEN a ELSE b
Min(a, b) == IF a <= b THEN a ELSE b
Abs(n) == IF n < 0 THEN 0 - n ELSE n
Sgn(n) == IF n < 0 THEN 0 - 1 ELSE IF n = 0 THEN 0 ELSE 1

RECURSIVE SumSeq(_)
SumSeq(s) == IF s = <<>> THEN 0 ELSE s[1] + SumSeq(Tail(s))

(***************************************************************************)
(* Binary naturals of any size: bit sequences, most significant bit first. *)
(***************************************************************************)
RECURSIVE Bits(_)
Bits(n) == IF n = 0 THEN <<>> ELSE Append(Bits(n \div 2), n % 2)

RECURSIVE NatOf(_)
NatOf(b) == IF b = <<>> THEN 0 ELSE 2 * NatOf(SubSeq(b, 1, Len(b) - 1)) + b[Len(b)]

Zeros(k) == [i \in 1..k |-> 0]

StripLead(b) ==
    IF \A i \in 1..Len(b) : b[i] = 0 THEN <<>>
    ELSE LET first == CHOOSE i \in 1..Len(b) :
                          b[i] = 1 /\ \A j \in 1..(i - 1) : b[j] = 0
         IN  SubSeq(b, first, Len(b))

PadTo(b, n) == Zeros(n - Len(b)) \o b

(***************************************************************************)
(* The digit loops run over the halves of a range, the carry (or the       *)
(* remainder) of one half entering the other, which keeps the evaluation   *)
(* shallow for long bit sequences.  The half that hands its carry over is *)
(* computed first (the test on its carry sees to that).                    *)
(***************************************************************************)
\* bits lo..hi of a + b + carry, and the carry out of bit lo
RECURSIVE AddRec(_, _, _, _, _)
AddRec(a, b, lo, hi, carry) ==
    IF lo > hi THEN [bits |-> <<>>, carry |-> carry]
    ELSE IF lo = hi
    THEN LET s == a[lo] + b[lo] + carry
         IN  [bits |-> <<s % 2>>, carry |-> s \div 2]
    ELSE LET mid   == (lo + hi) \div 2
             right == AddRec(a, b, mid + 1, hi, carry)
         IN  IF right.carry = 0
             THEN LET left == AddRec(a, b, lo, mid, 0)
                  IN  [bits |-> left.bits \o right.bits, carry |-> left.carry]
             ELSE LET left == AddRec(a, b, lo, mid, 1)
                  IN  [bits |-> left.bits \o right.bits, carry |-> left.carry]

AddBits(a, b) ==
    LET n == Max(Len(a), Len(b))
        r == AddRec(PadTo(a, n), PadTo(b, n), 1, n, 0)
    IN  IF r.carry = 1 THEN <<1>> \o r.bits ELSE r.bits

\* bits lo..hi of a - b - borrow, and the borrow out of bit lo
RECURSIVE SubRec(_, _, _, _, _)
SubRec(a, b, lo, hi, borrow) ==
    IF lo > hi THEN [bits |-> <<>>, borrow |-> borrow]
    ELSE IF lo = hi
    THEN LET d == a[lo] - b[lo] - borrow
         IN  IF d < 0 THEN [bits |-> <<d + 2>>, borrow |-> 1]
                      ELSE [bits |-> <<d>>, borrow |-> 0]
    ELSE LET mid   == (lo + hi) \div 2
             right == SubRec(a, b, mid + 1, hi, borrow)
         IN  IF right.borrow = 0
             THEN LET left == SubRec(a, b, lo, mid, 0)
                  IN  [bits |-> left.bits \o right.bits, borrow |-> left.borrow]
             ELSE LET left == SubRec(a, b, lo, mid, 1)
                  IN  [bits |-> left.bits \o right.bits, borrow |-> left.borrow]

\* a - b for a >= b
SubBits(a, b) ==
    LET n == Max(Len(a), Len(b))
    IN  StripLead(SubRec(PadTo(a, n), PadTo(b, n), 1, n, 0).bits)

\* a < b, for bit sequences without leading zeros
LessBits(a, b) ==
    \/ Len(a) < Len(b)
    \/ /\ Len(a) = Len(b)
       /\ \E i \in 1..Len(a) :
            /\ a[i] < b[i]
            /\ \A j \in 1..(i - 1) : a[j] = b[j]

\* bits lo..hi of a * c + carry, and the carry out of bit lo
RECURSIVE MulRec(_, _, _, _, _)
MulRec(a, c, lo, hi, carry) ==
    IF lo > hi THEN [bits |-> <<>>, carry |-> carry]
    ELSE IF lo = hi
    THEN LET p == a[lo] * c + carry
         IN  [bits |-> <<p % 2>>, carry |-> p \div 2]
    ELSE LET mid   == (lo + hi) \div 2
             right == MulRec(a, c, mid + 1, hi, carry)
         IN  IF right.carry = 0
             THEN LET left == MulRec(a, c, lo, mid, 0)
                  IN  [bits |-> left.bits \o right.bits, carry |-> left.carry]
             ELSE LET left == MulRec(a, c, lo, mid, right.carry)
                  IN  [bits |-> left.bits \o right.bits, carry |-> left.carry]

\* the bit sequence a times the small natural c
MulBits(a, c) ==
    LET r == MulRec(a, c, 1, Len(a), 0)
    IN  StripLead(Bits(r.carry) \o r.bits)

\* long division of bits lo..hi of a by d, entered with the remainder r
RECURSIVE DivRec(_, _, _, _, _)
DivRec(a, d, lo, hi, r) ==
    IF lo > hi THEN [q |-> <<>>, r |-> r]
    ELSE IF lo = hi
    THEN LET cur == 2 * r + a[lo]
         IN  IF cur >= d THEN [q |-> <<1>>, r |-> cur - d]
                         ELSE [q |-> <<0>>, r |-> cur]
    ELSE LET mid   == (lo + hi) \div 2
             left  == DivRec(a, d, lo, mid, r)
         IN  IF left.r = 0
             THEN LET right == DivRec(a, d, mid + 1, hi, 0)
                  IN  [q |-> left.q \o right.q, r |-> right.r]
             ELSE LET right == DivRec(a, d, mid + 1, hi, left.r)
                  IN  [q |-> left.q \o right.q, r |-> right.r]

\* long division of the bit sequence a by the small natural d > 0
DivBits(a, d) == DivRec(a, d, 1, Len(a), 0)

(***************************************************************************)
(* Python floats (IEEE 754 binary64), for the magnitudes the forecast      *)
(* meets: no overflow, no subnormal, no NaN.  The value of a float x is    *)
(* x.sign * NatOf(x.m) * 2^(x.e), with x.m odd and at most MantBits long.  *)
(***************************************************************************)
MantBits == 53

FZero == [sign |-> 0, m |-> <<>>, e |-> 0]

\* the float with an odd mantissa: trailing zero bits go to the exponent
Canon(sign, m, e) ==
    IF \A i \in 1..Len(m) : m[i] = 0 THEN FZero
    ELSE LET last == CHOOSE i \in 1..Len(m) :
                         m[i] = 1 /\ \A j \in (i + 1)..Len(m) : m[j] = 0
         IN  [sign |-> sign, m |-> SubSeq(m, 1, last), e |-> e + (Len(m) - last)]

\* sign * bits * 2^e (and a little more when sticky), rounded to a float
RoundToFloat(sign, bits, e, sticky) ==
    LET b == StripLead(bits)
        n == Len(b)
    IN  IF n <= MantBits THEN Canon(sign, b, e)
        ELSE LET keep  == SubSeq(b, 1, MantBits)
                 guard == b[MantBits + 1]
                 rest  == sticky \/ \E i \in (MantBits + 2)..n : b[i] = 1
                 up    == guard = 1 /\ (rest \/ keep[MantBits] = 1)
             IN  Canon(sign, IF up THEN AddBits(keep, <<1>>) ELSE keep,
                       e + (n - MantBits))

FromInt(n) == Canon(Sgn(n), Bits(Abs(n)), 0)

\* x / d for a float x and an int d > 0
FDiv(x, d) ==
    IF x.sign = 0 THEN FZero
    ELSE LET k  == MantBits + 2 + Len(Bits(d))
             qr == DivBits(x.m \o Zeros(k), d)
         IN  RoundToFloat(x.sign, qr.q, x.e - k, qr.r # 0)

\* n / d for ints n and d > 0 (Python's true division)
TrueDiv(n, d) == FDiv(FromInt(n), d)

FNeg(x) == [x EXCEPT !.sign = 0 - x.sign]

FAdd(x, y) ==
    IF x.sign = 0 THEN y
    ELSE IF y.sign = 0 THEN x
    ELSE LET e  == Min(x.e, y.e)
             mx == x.m \o Zeros(x.e - e)
             my == y.m \o Zeros(y.e - e)
         IN  IF x.sign = y.sign THEN RoundToFloat(x.sign, AddBits(mx, my), e, FALSE)
             ELSE IF mx = my THEN FZero
             ELSE IF LessBits(mx, my)
                  THEN RoundToFloat(y.sign, SubBits(my, mx), e, FALSE)
                  ELSE RoundToFloat(x.sign, SubBits(mx, my), e, FALSE)

FSub(x, y) == FAdd(x, FNeg(y))

\* fabs(x) >= fabs(y)
FAbsGeq(x, y) ==
    IF y.sign = 0 THEN TRUE
    ELSE IF x.sign = 0 THEN FALSE
    ELSE LET e  == Min(x.e, y.e)
             mx == x.m \o Zeros(x.e - e)
             my == y.m \o Zeros(y.e - e)
         IN  ~LessBits(mx, my)

\* n * x for an int n >= 0 and a float x
FMulInt(n, x) ==
    IF n = 0 \/ x.sign = 0 THEN FZero
    ELSE RoundToFloat(x.sign, MulBits(x.m, n), x.e, FALSE)

\* int(x): truncation toward zero
FTrunc(x) ==
    IF x.sign = 0 THEN 0
    ELSE IF x.e >= 0 THEN x.sign * NatOf(x.m \o Zeros(x.e))
    ELSE IF 0 - x.e >= Len(x.m) THEN 0
    ELSE x.sign * NatOf(SubSeq(x.m, 1, Len(x.m) + x.e))

(***************************************************************************)
(* Text: a string is a sequence of one-character strings.                  *)
(***************************************************************************)
Digits == <<"0", "1", "2", "3", "4", "5", "6", "7", "8", "9">>

UpperLetters == <<"A", "B", "C", "D", "E", "F", "G", "H", "I", "J", "K", "L", "M",
                  "N", "O", "P", "Q", "R", "S", "T", "U", "V", "W", "X", "Y", "Z">>

LowerLetters == <<"a", "b", "c", "d", "e", "f", "g", "h", "i", "j", "k", "l", "m",
                  "n", "o", "p", "q", "r", "s", "t", "u", "v", "w", "x", "y", "z">>

Range(f) == {f[i] : i \in DOMAIN f}

RECURSIVE str(_)
str(n) ==
    IF n < 0 THEN <<"-">> \o str(0 - n)
    ELSE IF n < 10 THEN <<Digits[n + 1]>>
    ELSE Append(str(n \div 10), Digits[(n % 10) + 1])

DigitVal(c) == CHOOSE d \in 0..9 : Digits[d + 1] = c

\* int(s) for a string of decimal digits
RECURSIVE int(_)
int(s) ==
    IF Len(s) = 1 THEN DigitVal(s[1])
    ELSE 10 * int(SubSeq(s, 1, Len(s) - 1)) + DigitVal(s[Len(s)])

\* sorted() of a set of ints
RECURSIVE SortedInts(_)
SortedInts(S) ==
    IF S = {} THEN <<>>
    ELSE LET lo == CHOOSE x \in S : \A y \in S : x <= y
         IN  <<lo>> \o SortedInts(S \ {lo})

\* s < t for strings of digits, as Python compares str
StrLess(s, t) ==
    \/ /\ Len(s) < Len(t)
       /\ SubSeq(t, 1, Len(s)) = s
    \/ \E i \in 1..Min(Len(s), Len(t)) :
          /\ DigitVal(s[i]) < DigitVal(t[i])
          /\ SubSeq(s, 1, i - 1) = SubSeq(t, 1, i - 1)

\* sorted() of a set of strings of digits
RECURSIVE SortedStrs(_)
SortedStrs(S) ==
    IF S = {} THEN <<>>
    ELSE LET lo == CHOOSE x \in S : \A y \in S \ {x} : StrLess(x, y)
         IN  <<lo>> \o SortedStrs(S \ {lo})

IsSpace(c) == c \in {" ", "\t", "\n", "\r"}

\* the ideographs of the sentinels of lines 117 and 125
Ideographs == {"U+672A", "U+77E5", "U+6807", "U+9898", "U+4F5C", "U+8005"}

\* \w of the re module (str patterns match Unicode word characters)
IsWordChar(c) ==
    c \in Range(Digits) \cup Range(UpperLetters) \cup Range(LowerLetters)
             \cup {"_"} \cup Ideographs

\* s.strip()
strip(s) ==
    IF \A i \in 1..Len(s) : IsSpace(s[i]) THEN <<>>
    ELSE LET first == CHOOSE i \in 1..Len(s) :
                          ~IsSpace(s[i]) /\ \A j \in 1..(i - 1) : IsSpace(s[j])
             last  == CHOOSE i \in 1..Len(s) :
                          ~IsSpace(s[i]) /\ \A j \in (i + 1)..Len(s) : IsSpace(s[j])
         IN  SubSeq(s, first, last)

LowerChar(c) ==
    IF \E i \in 1..Len(UpperLetters) : UpperLetters[i] = c
    THEN LowerLetters[CHOOSE i \in 1..Len(UpperLetters) : UpperLetters[i] = c]
    ELSE c

\* s.lower()
lower(s) == [i \in 1..Len(s) |-> LowerChar(s[i])]

\* sep.join(parts)
RECURSIVE join(_, _)
join(sep, parts) ==
    IF parts = <<>> THEN <<>>
    ELSE IF Len(parts) = 1 THEN parts[1]
    ELSE join(sep, SubSeq(parts, 1, Len(parts) - 1)) \o sep \o parts[Len(parts)]

\* needle in s
Contains(needle, s) ==
    \E i \in 0..(Len(s) - Len(needle)) : SubSeq(s, i + 1, i + Len(needle)) = needle

(***************************************************************************)
(* sum() of a list of floats.  Up to Python 3.11 sum() adds left to right; *)
(* from Python 3.12 on it keeps a Neumaier compensation term and adds it   *)
(* at the end.  The source does not say which interpreter runs it, so the  *)
(* model takes either.                                                     *)
(***************************************************************************)
RECURSIVE SumLeftToRight(_)
SumLeftToRight(rs) ==
    IF rs = <<>> THEN FZero
    ELSE FAdd(SumLeftToRight(SubSeq(rs, 1, Len(rs) - 1)), rs[Len(rs)])

RECURSIVE CompensatedRec(_)
CompensatedRec(rs) ==
    IF rs = <<>> THEN [hi |-> FZero, lo |-> FZero]
    ELSE LET p == CompensatedRec(SubSeq(rs, 1, Len(rs) - 1))
             x == rs[Len(rs)]
             t == FAdd(p.hi, x)
             c == IF FAbsGeq(p.hi, x) THEN FAdd(FSub(p.hi, t), x)
                                      ELSE FAdd(FSub(x, t), p.hi)
         IN  [hi |-> t, lo |-> FAdd(p.lo, c)]

SumCompensated(rs) ==
    LET p == CompensatedRec(rs)
    IN  IF p.lo.sign # 0 THEN FAdd(p.hi, p.lo) ELSE p.hi

sum(rs, compensated) ==
    IF compensated THEN SumCompensated(rs) ELSE SumLeftToRight(rs)

(***************************************************************************)
(* predict_next_year                                                       *)
(***************************************************************************)
\* the guard left out
AnyPriorCount(c) == TRUE

\* line 318: the guard of the division
PriorCountIsPositive(c) == c > 0

\* lines 316-320: the loop over the adjacent transitions 1..k; a division
\* by zero raises ZeroDivisionError
RECURSIVE growth_rates(_, _)
growth_rates(counts, k) ==
    IF k = 0 THEN [raised |-> FALSE, rates |-> <<>>]
    ELSE LET p == growth_rates(counts, k - 1)
         IN  IF p.raised THEN p
             ELSE IF PriorCountIsPositive(counts[k])
                  THEN IF counts[k] = 0
                       THEN [raised |-> TRUE, rates |-> p.rates]
                       ELSE [raised |-> FALSE,
                             rates |-> Append(p.rates,
                                        TrueDiv(counts[k + 1] - counts[k], counts[k]))]
                  ELSE p

\* line 345: the label of the i-th growth-rate line (i counts from 1 here)
RateLabel(years, i) == <<years[i], years[i + 1]>>

\* lines 337-346: the text of the report
PredictionReport(conf_name, years, counts, rates, fallback, avg_growth_rate, next_year, prediction) ==
    [written |-> TRUE,
     conf_name |-> conf_name,
     next_year |-> next_year,
     prediction |-> prediction,
     counts |-> [i \in 1..Len(years) |-> <<years[i], counts[i]>>],
     rates |-> IF fallback THEN <<>>
               ELSE [i \in 1..Len(rates) |->
                        [label |-> RateLabel(years, i), rate |-> rates[i]]],
     fallback |-> fallback,
     avg_growth_rate |-> avg_growth_rate]

\* lines 304-350.  old is the report file as it was; io_fails says whether
\* the open() of line 337 raises.  The result is the report file afterwards
\* and what the function did.
predict_next_year(year_count, conf_name, compensated, io_fails, old) ==
    IF DOMAIN year_count = {} \/ Cardinality(DOMAIN year_count) < 2
    THEN [file |-> old, outcome |-> "skipped"]
    ELSE LET years  == SortedInts({int(y) : y \in DOMAIN year_count})
             counts == [i \in 1..Len(years) |-> year_count[str(years[i])]]
             gr     == growth_rates(counts, Len(counts) - 1)
             next_year == years[Len(years)] + 1
         IN  IF gr.raised THEN [file |-> old, outcome |-> "raised"]
             ELSE IF io_fails THEN [file |-> old, outcome |-> "io_error"]
             ELSE IF gr.rates = <<>>
             THEN LET avg_count == TrueDiv(SumSeq(counts), Len(counts))
                  IN  [file |-> PredictionReport(conf_name, years, counts, <<>>,
                                   TRUE, FZero, next_year, FTrunc(avg_count)),
                       outcome |-> "written"]
             ELSE LET avg_growth_rate ==
                          FDiv(sum(gr.rates, compensated), Len(gr.rates))
                      next_count ==
                          FMulInt(counts[Len(counts)],
                                  FAdd(FromInt(1), avg_growth_rate))
                  IN  [file |-> PredictionReport(conf_name, years, counts,
                                   gr.rates, FALSE, avg_growth_rate, next_year,
                                   FTrunc(next_count)),
                       outcome |-> "written"]

(***************************************************************************)
(* The configuration, lines 70-89.  A dict keeps its insertion order.      *)
(***************************************************************************)
ConfKeys == <<"aaai", "cvpr", "iccv">>

CONFERENCE_CONFIGS ==
    [aaai |-> [name |-> <<"A", "A", "A", "I">>, start_year |-> 2020, end_year |-> 2025],
     cvpr |-> [name |-> <<"C", "V", "P", "R">>, start_year |-> 2020, end_year |-> 2024],
     iccv |-> [name |-> <<"I", "C", "C", "V">>, start_year |-> 2019, end_year |-> 2023]]

(***************************************************************************)
(* get_paper_info.  A response is what requests.get and BeautifulSoup give *)
(* back: a failure (any exception of lines 99-103), or the page's entries. *)
(* An entry holds what the code looks for in it: the title span, the name  *)
(* span of every author span and the href of every anchor, in document     *)
(* order.  The kind of an anchor is what the page means by it; the code    *)
(* reads the href alone.                                                   *)
(***************************************************************************)
Absent == [present |-> FALSE]
Tag(text) == [present |-> TRUE, text |-> text]

UNKNOWN_TITLE == <<"U+672A", "U+77E5", "U+6807", "U+9898">>
UNKNOWN_AUTHORS == <<"U+672A", "U+77E5", "U+4F5C", "U+8005">>

DOI_MARK == <<"d", "o", "i", ".", "o", "r", "g">>
REC_MARK == <<"d", "b", "l", "p", ".", "o", "r", "g", "/", "r", "e", "c", "/">>

\* entry.find('a', href=lambda href: href and needle in href)
FindAnchor(entry, needle) ==
    IF \E i \in 1..Len(entry.links) : Contains(needle, entry.links[i].href)
    THEN LET first == CHOOSE i \in 1..Len(entry.links) :
                          /\ Contains(needle, entry.links[i].href)
                          /\ \A j \in 1..(i - 1) : ~Contains(needle, entry.links[j].href)
         IN  [present |-> TRUE, href |-> entry.links[first].href]
    ELSE Absent

\* the two lookups in the other order
SelectLinkRecordFirst(entry) ==
    LET details_link == FindAnchor(entry, REC_MARK)
    IN  IF details_link.present THEN details_link.href
        ELSE LET doi_link == FindAnchor(entry, DOI_MARK)
             IN  IF doi_link.present THEN doi_link.href ELSE <<>>

\* lines 134-142
SelectLink(entry) ==
    LET doi_link == FindAnchor(entry, DOI_MARK)
    IN  IF doi_link.present THEN doi_link.href
        ELSE LET details_link == FindAnchor(entry, REC_MARK)
             IN  IF details_link.present THEN details_link.href ELSE <<>>

\* the sentinel forgotten
TitleOfNoSentinel(entry) ==
    IF entry.title.present THEN strip(entry.title.text) ELSE <<>>

\* line 117
TitleOf(entry) ==
    IF entry.title.present THEN strip(entry.title.text) ELSE UNKNOWN_TITLE

\* lines 120-124: the names of the author spans that hold a name span
RECURSIVE AuthorNames(_)
AuthorNames(tags) ==
    IF tags = <<>> THEN <<>>
    ELSE LET before == AuthorNames(SubSeq(tags, 1, Len(tags) - 1))
             name_tag == tags[Len(tags)]
         IN  IF name_tag.present THEN Append(before, strip(name_tag.text))
             ELSE before

\* line 125
AuthorsOf(entry) ==
    LET authors == AuthorNames(entry.authors)
    IN  IF authors # <<>> THEN join(<<";", " ">>, authors) ELSE UNKNOWN_AUTHORS

\* lines 113-144: the record of one entry
PaperOf(entry, conf_key, year) ==
    [title      |-> TitleOf(entry),
     authors    |-> AuthorsOf(entry),
     conference |-> CONFERENCE_CONFIGS[conf_key].name,
     year       |-> str(year),
     link       |-> SelectLink(entry)]

\* lines 92-151
get_paper_info(conf_key, year, response) ==
    IF response.failed THEN <<>>
    ELSE IF response.entries = <<>> THEN <<>>
    ELSE [i \in 1..Len(response.entries) |->
             PaperOf(response.entries[i], conf_key, year)]

(***************************************************************************)
(* save_to_csv.  The file is the text csv.DictWriter writes: the byte      *)
(* order mark of utf-8-sig, the header row and one row per paper, each     *)
(* ended by "\r\n", a field quoted when it holds the delimiter, the quote   *)
(* character or a line-terminator character, a quote doubled inside.       *)
(***************************************************************************)
NoFile == [written |-> FALSE]

FIELDNAMES == <<"title", "authors", "year", "conference", "link">>

FieldText ==
    [title |-> <<"t", "i", "t", "l", "e">>, authors |-> <<"a", "u", "t", "h", "o", "r", "s">>, year |-> <<"y", "e", "a", "r">>,
     conference |-> <<"c", "o", "n", "f", "e", "r", "e", "n", "c", "e">>, link |-> <<"l", "i", "n", "k">>]

BOM == "U+FEFF"

NeedsQuotes(field) == \E i \in 1..Len(field) : field[i] \in {",", "\"", "\r", "\n"}

RECURSIVE DoubleQuotes(_)
DoubleQuotes(field) ==
    IF field = <<>> THEN <<>>
    ELSE LET before == DoubleQuotes(SubSeq(field, 1, Len(field) - 1))
             c == field[Len(field)]
         IN  IF c = "\"" THEN before \o <<"\"", "\"">> ELSE Append(before, c)

\* no field is ever quoted
CsvFieldUnquoted(field) == field

\* a field as the writer puts it (QUOTE_MINIMAL)
CsvField(field) ==
    IF NeedsQuotes(field) THEN <<"\"">> \o DoubleQuotes(field) \o <<"\"">>
    ELSE field

\* writer.writerow(fields)
CsvRow(fields) ==
    join(<<",">>, [i \in 1..Len(fields) |-> CsvField(fields[i])]) \o <<"\r", "\n">>

\* DictWriter: the values of the row in the order of fieldnames
DictRow(paper) == [i \in 1..Len(FIELDNAMES) |-> paper[FIELDNAMES[i]]]

RECURSIVE CsvRows(_)
CsvRows(papers) ==
    IF papers = <<>> THEN <<>>
    ELSE CsvRows(SubSeq(papers, 1, Len(papers) - 1))
             \o CsvRow(DictRow(papers[Len(papers)]))

\* lines 153-167.  old is the file as it was; io_fails says whether the
\* open() of line 160 raises.  The result is the file afterwards.
save_to_csv(papers, io_fails, old) ==
    IF papers = <<>> THEN old
    ELSE IF io_fails THEN old
    ELSE [written |-> TRUE,
          text |-> <<BOM>> \o CsvRow([i \in 1..Len(FIELDNAMES) |-> FieldText[FIELDNAMES[i]]])
                       \o CsvRows(papers)]

(***************************************************************************)
(* plot_paper_trend                                                        *)
(***************************************************************************)
\* the years seen, each counted once
YearCountOfDistinct(papers) ==
    [y \in {papers[i].year : i \in 1..Len(papers)} |-> 1]

\* lines 177-180
YearCount(papers) ==
    [y \in {papers[i].year : i \in 1..Len(papers)} |->
        Cardinality({i \in 1..Len(papers) : papers[i].year = y})]

\* lines 170-206.  The result is the chart file afterwards, the returned
\* year_count, and whether a rendering failure was logged.
plot_paper_trend(papers, io_fails, old) ==
    IF papers = <<>>
    THEN [file |-> old, year_count |-> <<>>, attempted |-> FALSE, logged |-> FALSE]
    ELSE LET year_count == YearCount(papers)
             years  == SortedStrs(DOMAIN year_count)
             counts == [i \in 1..Len(years) |-> year_count[years[i]]]
         IN  IF io_fails
             THEN [file |-> old, year_count |-> year_count,
                   attempted |-> TRUE, logged |-> TRUE]
             ELSE [file |-> [written |-> TRUE, years |-> years, counts |-> counts],
                   year_count |-> year_count,
                   attempted |-> TRUE, logged |-> FALSE]

(***************************************************************************)
(* extract_keywords.  A Counter is the sequence of its (word, count)       *)
(* pairs in the order the words were first counted.                        *)
(***************************************************************************)
STOP_WORDS ==
    {<<"a">>,
     <<"a", "n">>,
     <<"t", "h", "e">>,
     <<"a", "n", "d">>,
     <<"o", "r">>,
     <<"b", "u", "t">>,
     <<"i", "f">>,
     <<"b", "e", "c", "a", "u", "s", "e">>,
     <<"a", "s">>,
     <<"w", "h", "a", "t">>,
     <<"w", "h", "i", "c", "h">>,
     <<"t", "h", "i", "s">>,
     <<"t", "h", "a", "t">>,
     <<"t", "h", "e", "s", "e">>,
     <<"t", "h", "o", "s", "e">>,
     <<"t", "h", "e", "n">>,
     <<"j", "u", "s", "t">>,
     <<"s", "o">>,
     <<"t", "h", "a", "n">>,
     <<"s", "u", "c", "h">>,
     <<"b", "o", "t", "h">>,
     <<"t", "h", "r", "o", "u", "g", "h">>,
     <<"a", "b", "o", "u", "t">>,
     <<"f", "o", "r">>,
     <<"i", "s">>,
     <<"o", "f">>,
     <<"w", "h", "i", "l", "e">>,
     <<"d", "u", "r", "i", "n", "g">>,
     <<"t", "o">>,
     <<"f", "r", "o", "m">>,
     <<"i", "n">>,
     <<"o", "n">>,
     <<"b", "y">>,
     <<"w", "i", "t", "h">>,
     <<"w", "i", "t", "h", "o", "u", "t">>,
     <<"a", "t">>,
     <<"b", "e", "t", "w", "e", "e", "n">>}

\* re.sub(r'[^\w\s]', ' ', s)
RemovePunctuation(s) ==
    [i \in 1..Len(s) |-> IF ~IsWordChar(s[i]) /\ ~IsSpace(s[i]) THEN " " ELSE s[i]]

\* s.split(): the maximal runs of non-space characters, in order
split(s) ==
    LET starts == SortedInts({i \in 1..Len(s) :
                      ~IsSpace(s[i]) /\ (i = 1 \/ IsSpace(s[i - 1]))})
        EndOf(i) == CHOOSE j \in i..Len(s) :
                      /\ \A k \in i..j : ~IsSpace(s[k])
                      /\ (j = Len(s) \/ IsSpace(s[j + 1]))
    IN  [k \in 1..Len(starts) |-> SubSeq(s, starts[k], EndOf(starts[k]))]

\* line 226
IsKeyword(word) == word \notin STOP_WORDS /\ Len(word) > 2

\* the titles joined with nothing between them
NoSeparator == <<>>

\* line 216: the separator between two titles
TITLE_SEPARATOR == <<" ">>

\* Counter(words)
Counter(words) ==
    LET firsts == SortedInts({i \in 1..Len(words) :
                      \A j \in 1..(i - 1) : words[j] # words[i]})
    IN  [k \in 1..Len(firsts) |->
            <<words[firsts[k]],
              Cardinality({i \in 1..Len(words) : words[i] = words[firsts[k]]})>>]

\* word_freq[word]
Freq(word_freq, word) ==
    IF \E k \in 1..Len(word_freq) : word_freq[k][1] = word
    THEN word_freq[CHOOSE k \in 1..Len(word_freq) : word_freq[k][1] = word][2]
    ELSE 0

\* lines 209-231
extract_keywords(papers) ==
    IF papers = <<>> THEN <<>>
    ELSE LET all_titles == join(TITLE_SEPARATOR,
                                [i \in 1..Len(papers) |-> papers[i].title])
             words == split(RemovePunctuation(lower(all_titles)))
         IN  Counter(SelectSeq(words, IsKeyword))

(***************************************************************************)
(* plot_keywords_bar and generate_wordcloud                                *)
(***************************************************************************)
TOP_N == 20
MAX_WORDS == 200

\* word_freq.most_common(n): by falling count, equal counts in the order
\* of the Counter
RECURSIVE most_common(_, _)
most_common(word_freq, n) ==
    IF n = 0 \/ word_freq = <<>> THEN <<>>
    ELSE LET best == CHOOSE k \in 1..Len(word_freq) :
                       /\ \A j \in 1..Len(word_freq) : word_freq[j][2] <= word_freq[k][2]
                       /\ \A j \in 1..(k - 1) : word_freq[j][2] < word_freq[k][2]
             others == [j \in 1..(Len(word_freq) - 1) |->
                          IF j < best THEN word_freq[j] ELSE word_freq[j + 1]]
         IN  <<word_freq[best]>> \o most_common(others, n - 1)

\* lines 269-301.  The result is the image file afterwards and whether a
\* failure was logged.
generate_wordcloud(word_freq, io_fails, old) ==
    IF io_fails THEN [file |-> old, logged |-> TRUE]
    ELSE [file |-> [written |-> TRUE, words |-> most_common(word_freq, MAX_WORDS)],
          logged |-> FALSE]

\* lines 233-267.  old holds the three files as they were; the three flags
\* say whether drawing the bar chart (lines 245-253), writing the listing
\* (lines 256-259) and drawing the word cloud raise.  One try block covers
\* the three steps.
plot_keywords_bar(word_freq, top_n, wordcloud_available, bar_fails, listing_fails, cloud_fails, old) ==
    IF word_freq = <<>>
    THEN [bar |-> old.bar, keywords |-> old.keywords, wordcloud |-> old.wordcloud,
          attempted |-> {}, logged |-> {}]
    ELSE LET top_words == most_common(word_freq, top_n)
         IN  IF bar_fails
             THEN [bar |-> old.bar, keywords |-> old.keywords,
                   wordcloud |-> old.wordcloud,
                   attempted |-> {"bar"}, logged |-> {"bar"}]
             ELSE LET bar == [written |-> TRUE, top_words |-> top_words]
                  IN  IF listing_fails
                      THEN [bar |-> bar, keywords |-> old.keywords,
                            wordcloud |-> old.wordcloud,
                            attempted |-> {"bar", "keywords"},
                            logged |-> {"keywords"}]
                      ELSE LET listing == [written |-> TRUE, top_n |-> top_n,
                                           lines |-> [i \in 1..Len(top_words) |->
                                                       <<i, top_words[i][1], top_words[i][2]>>]]
                           IN  IF wordcloud_available
                               THEN LET wc == generate_wordcloud(word_freq, cloud_fails,
                                                                 old.wordcloud)
                                    IN  [bar |-> bar, keywords |-> listing,
                                         wordcloud |-> wc.file,
                                         attempted |-> {"bar", "keywords", "wordcloud"},
                                         logged |-> IF wc.logged THEN {"wordcloud"} ELSE {}]
                               ELSE [bar |-> bar, keywords |-> listing,
                                     wordcloud |-> old.wordcloud,
                                     attempted |-> {"bar", "keywords"},
                                     logged |-> {}]

(***************************************************************************)
(* Reading a CSV file back: csv.reader over the file opened with           *)
(* encoding='utf-8-sig' and newline=''.  This is the reader of the         *)
(* standard library, the program has none; the round trip of save_to_csv   *)
(* is stated with it.                                                      *)
(***************************************************************************)
CsvStart == [state |-> "start_record", rows |-> <<>>, fields |-> <<>>, field |-> <<>>]

CsvEndRecord(st, c) ==
    [state |-> IF c = "\r" THEN "eat_cr" ELSE "start_record",
     rows |-> Append(st.rows, Append(st.fields, st.field)),
     fields |-> <<>>, field |-> <<>>]

CsvEndField(st) ==
    [st EXCEPT !.state = "start_field", !.fields = Append(st.fields, st.field),
               !.field = <<>>]

CsvAddChar(st, c, next) == [st EXCEPT !.state = next, !.field = Append(st.field, c)]

CsvStep(st, c) ==
    IF st.state = "eat_cr" /\ c = "\n" THEN [st EXCEPT !.state = "start_record"]
    ELSE IF st.state \in {"start_record", "eat_cr"} /\ c \in {"\r", "\n"}
    THEN [st EXCEPT !.state = IF c = "\r" THEN "eat_cr" ELSE "start_record",
                    !.rows = Append(st.rows, <<>>)]
    ELSE IF st.state \in {"start_record", "eat_cr", "start_field"}
    THEN IF c \in {"\r", "\n"} THEN CsvEndRecord(st, c)
         ELSE IF c = "\"" THEN [st EXCEPT !.state = "in_quoted"]
         ELSE IF c = "," THEN CsvEndField(st)
         ELSE CsvAddChar(st, c, "in_field")
    ELSE IF st.state = "in_field"
    THEN IF c \in {"\r", "\n"} THEN CsvEndRecord(st, c)
         ELSE IF c = "," THEN CsvEndField(st)
         ELSE CsvAddChar(st, c, "in_field")
    ELSE IF st.state = "in_quoted"
    THEN IF c = "\"" THEN [st EXCEPT !.state = "quote_in_quoted"]
         ELSE CsvAddChar(st, c, "in_quoted")
    ELSE \* quote_in_quoted
         IF c = "\"" THEN CsvAddChar(st, c, "in_quoted")
         ELSE IF c = "," THEN CsvEndField(st)
         ELSE IF c \in {"\r", "\n"} THEN CsvEndRecord(st, c)
         ELSE CsvAddChar(st, c, "in_field")

\* the reader's state after characters lo..hi of text, entered in state st
RECURSIVE CsvScan(_, _, _, _)
CsvScan(text, lo, hi, st) ==
    IF lo > hi THEN st
    ELSE IF lo = hi THEN CsvStep(st, text[lo])
    ELSE LET mid  == (lo + hi) \div 2
             left == CsvScan(text, lo, mid, st)
         IN  IF left.state = "start_record"
             THEN CsvScan(text, mid + 1, hi, left)
             ELSE CsvScan(text, mid + 1, hi, left)

\* list(csv.reader(f)): the rows of the file, the header row first
CsvRead(file) ==
    IF ~file.written THEN <<>>
    ELSE LET text == IF file.text # <<>> /\ file.text[1] = BOM
                     THEN Tail(file.text) ELSE file.text
             end  == CsvScan(text, 1, Len(text), CsvStart)
         IN  IF end.state \in {"start_record", "eat_cr"} THEN end.rows
             ELSE Append(end.rows, Append(end.fields, end.field))

(***************************************************************************)
(* The state.                                                              *)
(*   pc, conf_idx, year   where main and process_conference stand: the     *)
(*                        position in CONFERENCE_CONFIGS and the loop      *)
(*                        variable of line 363                             *)
(*   all_papers           line 362                                         *)
(*   year_count, word_freq   lines 381 and 384                             *)
(*   out                  the files of the conference at hand under        *)
(*                        output/ (another conference's files are never    *)
(*                        touched while this one is processed)             *)
(*   report               what the reporting steps of the conference at    *)
(*                        hand attempted and logged                        *)
(*   fetch_log            the requests sent and the sleeps taken so far    *)
(*   served               per year of the conference at hand, how many     *)
(*                        entries the page held that the site served       *)
(*   any_failed, any_skipped   whether a request has failed, whether a     *)
(*                        conference has ended with no record              *)
(*   wordcloud_available  WORDCLOUD_AVAILABLE, line 14 or 17               *)
(*   compensated          whether the interpreter's sum() compensates      *)
(*   response, papers     the argument and the result of a single call of  *)
(*                        get_paper_info                                   *)
(*   rows                 what reading the CSV file back gives             *)
(***************************************************************************)
VARIABLES pc, conf_idx, year, all_papers, year_count, word_freq, out, report,
          fetch_log, served, any_failed, any_skipped, wordcloud_available,
          compensated, response, papers, rows

vars == <<pc, conf_idx, year, all_papers, year_count, word_freq, out, report,
          fetch_log, served, any_failed, any_skipped, wordcloud_available,
          compensated, response, papers, rows>>

FreshOutput ==
    [csv |-> NoFile, trend |-> NoFile, bar |-> NoFile, keywords |-> NoFile,
     wordcloud |-> NoFile, prediction |-> NoFile]

NoReport == [attempted |-> {}, logged |-> {}, forecast |-> "none"]

Failure == [failed |-> TRUE, entries |-> <<>>]
Page(entries) == [failed |-> FALSE, entries |-> entries]

\* the sequences over S of length at most n
SeqsUpTo(S, n) == UNION {[1..k -> S] : k \in 0..n}

(***************************************************************************)
(* What the site serves during a run: a failure, or a page of at most      *)
(* MaxPageEntries entries like SampleEntry, a conference having at most    *)
(* MaxPapers entries over its years.                                       *)
(***************************************************************************)
MaxPageEntries == 2
MaxPapers == 3

SampleEntry ==
    [title   |-> Tag(<<" ", "D", "e", "e", "p", " ", "n", "e", "t", "s", ",", " ", "f", "o", "r", " ", "X", " ">>),
     authors |-> <<Tag(<<"A">>), Absent, Tag(<<" ", "B", " ", "C">>)>>,
     links   |-> <<[kind |-> "rec", href |-> <<"d", "b", "l", "p", ".", "o", "r", "g", "/", "r", "e", "c", "/", "1">>], [kind |-> "doi", href |-> <<"d", "o", "i", ".", "o", "r", "g", "/", "1">>]>>]

RunResponses == {Failure} \cup {Page([i \in 1..k |-> SampleEntry]) : k \in 0..MaxPageEntries}

SLEEP_SECONDS == 2

\* the parity test reversed
SkipsOddYear(conf_key, y) == conf_key = "iccv" /\ y % 2 = 1

\* line 365
SkipsYear(conf_key, y) == conf_key = "iccv" /\ y % 2 = 0

conf_key == ConfKeys[conf_idx]
conf_config == CONFERENCE_CONFIGS[conf_key]

\* line 398: the next conference of the loop of main; lines 354-362
StartConference ==
    /\ pc = "main"
    /\ conf_idx <= Len(ConfKeys)
    /\ pc' = "fetch"
    /\ year' = conf_config.start_year
    /\ all_papers' = <<>>
    /\ year_count' = <<>>
    /\ word_freq' = <<>>
    /\ out' = FreshOutput
    /\ report' = NoReport
    /\ served' = <<>>
    /\ UNCHANGED <<conf_idx, fetch_log, any_failed, any_skipped, wordcloud_available,
                   compensated, response, papers, rows>>

\* lines 365-366
SkipYear ==
    /\ pc = "fetch"
    /\ year <= conf_config.end_year
    /\ SkipsYear(conf_key, year)
    /\ year' = year + 1
    /\ UNCHANGED <<pc, conf_idx, all_papers, year_count, word_freq, out, report,
                   fetch_log, served, any_failed, any_skipped, wordcloud_available,
                   compensated, response, papers, rows>>

\* lines 369-371: one request, whatever it gives, then the sleep
FetchYear ==
    /\ pc = "fetch"
    /\ year <= conf_config.end_year
    /\ ~SkipsYear(conf_key, year)
    /\ \E r \in RunResponses :
         /\ Len(all_papers) + Len(r.entries) <= MaxPapers
         /\ all_papers' = all_papers \o get_paper_info(conf_key, year, r)
         /\ served' = (year :> Len(r.entries)) @@ served
         /\ any_failed' = (any_failed \/ r.failed)
    /\ fetch_log' = fetch_log \o <<<<"GET", conf_key, year>>, <<"sleep", SLEEP_SECONDS>>>>
    /\ year' = year + 1
    /\ UNCHANGED <<pc, conf_idx, year_count, word_freq, out, report, any_skipped,
                   wordcloud_available, compensated, response, papers, rows>>

\* lines 373-375
ReturnEmpty ==
    /\ pc = "fetch"
    /\ year > conf_config.end_year
    /\ all_papers = <<>>
    /\ pc' = "main"
    /\ conf_idx' = conf_idx + 1
    /\ any_skipped' = TRUE
    /\ UNCHANGED <<year, all_papers, year_count, word_freq, out, report, fetch_log,
                   served, any_failed, wordcloud_available, compensated, response,
                   papers, rows>>

\* line 378
SaveCsv ==
    /\ pc = "fetch"
    /\ year > conf_config.end_year
    /\ all_papers # <<>>
    /\ \E csv_fails \in BOOLEAN :
         /\ out' = [out EXCEPT !.csv = save_to_csv(all_papers, csv_fails, out.csv)]
         /\ report' = [report EXCEPT
                          !.attempted = @ \cup {"csv"},
                          !.logged = @ \cup (IF csv_fails THEN {"csv"} ELSE {})]
    /\ pc' = "trend"
    /\ UNCHANGED <<conf_idx, year, all_papers, year_count, word_freq, fetch_log,
                   served, any_failed, any_skipped, wordcloud_available,
                   compensated, response, papers, rows>>

\* line 381
PlotTrend ==
    /\ pc = "trend"
    /\ \E trend_fails \in BOOLEAN :
         \E tr \in {plot_paper_trend(all_papers, trend_fails, out.trend)} :
           /\ out' = [out EXCEPT !.trend = tr.file]
           /\ year_count' = tr.year_count
           /\ report' = [report EXCEPT
                            !.attempted = @ \cup (IF tr.attempted THEN {"trend"} ELSE {}),
                            !.logged = @ \cup (IF tr.logged THEN {"trend"} ELSE {})]
    /\ pc' = "keywords"
    /\ UNCHANGED <<conf_idx, year, all_papers, word_freq, fetch_log, served,
                   any_failed, any_skipped, wordcloud_available, compensated,
                   response, papers, rows>>

\* line 384
ExtractKeywords ==
    /\ pc = "keywords"
    /\ word_freq' = extract_keywords(all_papers)
    /\ pc' = "chart"
    /\ UNCHANGED <<conf_idx, year, all_papers, year_count, out, report, fetch_log,
                   served, any_failed, any_skipped, wordcloud_available,
                   compensated, response, papers, rows>>

\* line 385
PlotKeywords ==
    /\ pc = "chart"
    /\ \E bar_fails, listing_fails, cloud_fails \in BOOLEAN :
         \E kb \in {plot_keywords_bar(word_freq, TOP_N, wordcloud_available,
                                      bar_fails, listing_fails, cloud_fails, out)} :
           /\ out' = [out EXCEPT !.bar = kb.bar, !.keywords = kb.keywords,
                                 !.wordcloud = kb.wordcloud]
           /\ report' = [report EXCEPT !.attempted = @ \cup kb.attempted,
                                       !.logged = @ \cup kb.logged]
    /\ pc' = "forecast"
    /\ UNCHANGED <<conf_idx, year, all_papers, year_count, word_freq, fetch_log,
                   served, any_failed, any_skipped, wordcloud_available,
                   compensated, response, papers, rows>>

\* line 388, and the return to main
Predict ==
    /\ pc = "forecast"
    /\ \E forecast_fails \in BOOLEAN :
         \E fc \in {predict_next_year(year_count, conf_config.name, compensated,
                                      forecast_fails, out.prediction)} :
           /\ out' = [out EXCEPT !.prediction = fc.file]
           /\ report' = [report EXCEPT
                            !.attempted = @ \cup (IF fc.outcome = "skipped" THEN {}
                                                  ELSE {"prediction"}),
                            !.logged = @ \cup (IF fc.outcome \in {"raised", "io_error"}
                                               THEN {"prediction"} ELSE {}),
                            !.forecast = fc.outcome]
    /\ pc' = "main"
    /\ conf_idx' = conf_idx + 1
    /\ UNCHANGED <<year, all_papers, year_count, word_freq, fetch_log, served,
                   any_failed, any_skipped, wordcloud_available, compensated,
                   response, papers, rows>>

\* line 401
Finish ==
    /\ pc = "main"
    /\ conf_idx > Len(ConfKeys)
    /\ pc' = "done"
    /\ UNCHANGED <<conf_idx, year, all_papers, year_count, word_freq, out, report,
                   fetch_log, served, any_failed, any_skipped, wordcloud_available,
                   compensated, response, papers, rows>>

Init ==
    /\ pc = "main"
    /\ conf_idx = 1
    /\ year = 0
    /\ all_papers = <<>>
    /\ year_count = <<>>
    /\ word_freq = <<>>
    /\ out = FreshOutput
    /\ report = NoReport
    /\ fetch_log = <<>>
    /\ served = <<>>
    /\ any_failed = FALSE
    /\ any_skipped = FALSE
    /\ wordcloud_available \in BOOLEAN
    /\ compensated \in BOOLEAN
    /\ response = Failure
    /\ papers = <<>>
    /\ rows = <<>>

Next ==
    \/ StartConference
    \/ SkipYear
    \/ FetchYear
    \/ ReturnEmpty
    \/ SaveCsv
    \/ PlotTrend
    \/ ExtractKeywords
    \/ PlotKeywords
    \/ Predict
    \/ Finish

\* one run of main
Spec == Init /\ [][Next]_vars

\* where main stands
position == <<pc, conf_idx, year>>

Positions ==
    {"main", "fetch", "trend", "keywords", "chart", "forecast", "done"}
        \X (1..(Len(ConfKeys) + 1))
        \X ({0} \cup UNION {CONFERENCE_CONFIGS[k].start_year..(CONFERENCE_CONFIGS[k].end_year + 1) :
                                k \in Range(ConfKeys)})

\* main moves on from where it stands
Advance ==
    /\ pc # "done"
    /\ \E p \in Positions \ {position} :
         /\ pc' = p[1]
         /\ conf_idx' = p[2]
         /\ year' = p[3]

\* main is sequential code with no blocking call (requests.get has a
\* timeout, line 100): as long as it has not ended, it moves on.  Every step
\* of Next moves it, and Next has a step wherever it stands but at "done".
FairSpec == Spec /\ WF_position(Advance)

(***************************************************************************)
(* predict_next_year on its own: any Year Count Map over the years crawled *)
(* for ICCV with counts up to MaxCount, and the two maps the specification *)
(* of the forecaster quotes.                                               *)
(***************************************************************************)
MaxCount == 9

PredictYears ==
    {y \in CONFERENCE_CONFIGS["iccv"].start_year..CONFERENCE_CONFIGS["iccv"].end_year :
        ~SkipsYear("iccv", y)}

GrowingYearCount ==
    (str(2020) :> 100) @@ (str(2021) :> 150) @@ (str(2022) :> 225)

ZeroFirstYearCount == (str(2020) :> 0) @@ (str(2021) :> 100)

YearCountMaps ==
    UNION {[{str(y) : y \in S} -> 0..MaxCount] : S \in SUBSET PredictYears}
        \cup {GrowingYearCount, ZeroFirstYearCount}

Idle ==
    /\ conf_idx = 1
    /\ year = 0
    /\ all_papers = <<>>
    /\ word_freq = <<>>
    /\ out = FreshOutput
    /\ report = NoReport
    /\ fetch_log = <<>>
    /\ served = <<>>
    /\ any_failed = FALSE
    /\ any_skipped = FALSE
    /\ response = Failure
    /\ papers = <<>>
    /\ rows = <<>>

InitPredict ==
    /\ pc = "call"
    /\ year_count \in YearCountMaps
    /\ compensated \in BOOLEAN
    /\ wordcloud_available = FALSE
    /\ Idle

\* line 388: one call of predict_next_year
CallPredict ==
    /\ pc = "call"
    /\ \E io_fails \in BOOLEAN :
         \E fc \in {predict_next_year(year_count, conf_config.name, compensated,
                                      io_fails, out.prediction)} :
           /\ out' = [out EXCEPT !.prediction = fc.file]
           /\ report' = [report EXCEPT !.forecast = fc.outcome]
    /\ pc' = "returned"
    /\ UNCHANGED <<conf_idx, year, all_papers, year_count, word_freq, fetch_log,
                   served, any_failed, any_skipped, wordcloud_available,
                   compensated, response, papers, rows>>

NextPredict == CallPredict

SpecPredict == InitPredict /\ [][NextPredict]_vars

\* The years of the map at hand in ascending order, their counts, and the
\* adjacent pairs of years whose earlier count is not zero.
ConfiguredYears ==
    UNION {CONFERENCE_CONFIGS[k].start_year..CONFERENCE_CONFIGS[k].end_year :
              k \in Range(ConfKeys)}

ObservedYears ==
    SortedInts({y \in ConfiguredYears : str(y) \in DOMAIN year_count})

ObservedCounts == [i \in 1..Len(ObservedYears) |-> year_count[str(ObservedYears[i])]]

ValidTransitions ==
    SelectSeq([i \in 1..(Len(ObservedYears) - 1) |-> i],
              LAMBDA i : ObservedCounts[i] # 0)

ForecastWritten == pc = "returned" /\ report.forecast = "written"

\* the rate of transition i, as Python's true division gives it
RateOf(i) == TrueDiv(ObservedCounts[i + 1] - ObservedCounts[i], ObservedCounts[i])

\* floor(last_count * (1 + mean(growth_rates))) in exact arithmetic: with d
\* the product of the earlier counts of the valid transitions and n their
\* number, the value is last * (n * d + sum((c[i+1] - c[i]) * d / c[i])) / (n * d)
RECURSIVE ProductOf(_)
ProductOf(s) == IF s = <<>> THEN 1 ELSE s[1] * ProductOf(Tail(s))

ExactForecast ==
    LET n == Len(ValidTransitions)
        d == ProductOf([k \in 1..n |-> ObservedCounts[ValidTransitions[k]]])
        num == SumSeq([k \in 1..n |->
                   LET i == ValidTransitions[k]
                   IN  (ObservedCounts[i + 1] - ObservedCounts[i])
                           * (d \div ObservedCounts[i])])
    IN  (ObservedCounts[Len(ObservedCounts)] * (n * d + num)) \div (n * d)

\* C1: whenever some adjacent transition has a non-zero earlier count, the
\* forecast is for the year after the last one and equals
\* floor(last_count * (1 + mean(growth_rates))).
C1_ForecastIsFloor ==
    (ForecastWritten /\ ValidTransitions # <<>>) =>
        /\ out.prediction.next_year = ObservedYears[Len(ObservedYears)] + 1
        /\ out.prediction.prediction = ExactForecast

\* C2: a transition whose earlier count is zero is skipped and nothing is
\* raised; the fallback (integer part of the average count) is taken exactly
\* when no valid transition remains, and otherwise the forecast uses the
\* mean of the rates of the valid transitions alone.
C2_ZeroGuard ==
    pc = "returned" =>
        /\ report.forecast # "raised"
        /\ report.forecast = "written" =>
             LET file == out.prediction
                 n == Len(ValidTransitions)
                 rates == [k \in 1..n |-> RateOf(ValidTransitions[k])]
             IN  /\ file.fallback = (n = 0)
                 /\ n = 0 =>
                      file.prediction = SumSeq(ObservedCounts) \div Len(ObservedCounts)
                 /\ n > 0 =>
                      /\ [k \in 1..Len(file.rates) |-> file.rates[k].rate] = rates
                      /\ file.avg_growth_rate = FDiv(sum(rates, compensated), n)
                      /\ file.prediction =
                           FTrunc(FMulInt(ObservedCounts[Len(ObservedCounts)],
                                          FAdd(FromInt(1), file.avg_growth_rate)))

\* a zero earlier count was skipped and a rate remained
C2_Witness ==
    /\ ForecastWritten
    /\ ~out.prediction.fallback
    /\ \E i \in 1..(Len(ObservedCounts) - 1) : ObservedCounts[i] = 0

\* C10: every growth-rate line of the report names the two adjacent years
\* whose counts gave its rate.
C10_RateLabels ==
    (ForecastWritten /\ ~out.prediction.fallback) =>
        \A k \in 1..Len(out.prediction.rates) :
            LET i == ValidTransitions[k]
            IN  out.prediction.rates[k].label = <<ObservedYears[i], ObservedYears[i + 1]>>

(***************************************************************************)
(* get_paper_info on its own: a failure, or a page of at most MaxEntries   *)
(* entries.  An entry varies the title span, the author spans or the       *)
(* anchors of SampleEntry.                                                 *)
(***************************************************************************)
MaxEntries == 2

DoiHref == <<"d", "o", "i", ".", "o", "r", "g", "/", "1">>
RecHref == <<"d", "b", "l", "p", ".", "o", "r", "g", "/", "r", "e", "c", "/", "1">>
OtherHref == <<"x", ".", "o", "r", "g">>

Anchors ==
    {[kind |-> "doi", href |-> DoiHref],
     [kind |-> "doi", href |-> Append(DoiHref, "0")],
     [kind |-> "rec", href |-> RecHref],
     [kind |-> "other", href |-> OtherHref],
     [kind |-> "other", href |-> <<>>]}

TitleSpans ==
    {Absent, Tag(<<>>), Tag(<<" ", "\n">>), Tag(<<" ", "O", "n", " ", "X", " ">>)}

AuthorSpans ==
    {<<>>, <<Absent>>, <<Tag(<<" ">>)>>, <<Tag(<<"A">>)>>,
     <<Tag(<<>>), Tag(<<"\t">>)>>, <<Absent, Tag(<<"A", " ", "B">>)>>,
     <<Tag(<<" ", "A">>), Tag(<<"B", " ">>)>>}

Entries ==
    {[SampleEntry EXCEPT !.title = t] : t \in TitleSpans}
        \cup {[SampleEntry EXCEPT !.authors = a] : a \in AuthorSpans}
        \cup {[SampleEntry EXCEPT !.links = l] : l \in SeqsUpTo(Anchors, 2)}

Responses == {Failure} \cup {Page(es) : es \in SeqsUpTo(Entries, MaxEntries)}

InitExtract ==
    /\ pc = "call"
    /\ conf_idx \in 1..Len(ConfKeys)
    /\ year \in {conf_config.start_year, conf_config.end_year}
    /\ response \in Responses
    /\ papers = <<>>
    /\ all_papers = <<>>
    /\ year_count = <<>>
    /\ word_freq = <<>>
    /\ out = FreshOutput
    /\ report = NoReport
    /\ fetch_log = <<>>
    /\ served = <<>>
    /\ any_failed = FALSE
    /\ any_skipped = FALSE
    /\ wordcloud_available = FALSE
    /\ compensated = FALSE
    /\ rows = <<>>

\* line 369: one call of get_paper_info
CallGetPaperInfo ==
    /\ pc = "call"
    /\ papers' = get_paper_info(conf_key, year, response)
    /\ pc' = "returned"
    /\ UNCHANGED <<conf_idx, year, all_papers, year_count, word_freq, out, report,
                   fetch_log, served, any_failed, any_skipped, wordcloud_available,
                   compensated, response, rows>>

NextExtract == CallGetPaperInfo

SpecExtract == InitExtract /\ [][NextExtract]_vars

PageReturned == pc = "returned" /\ ~response.failed

\* the hrefs of the anchors of a kind, in document order
HrefsOf(entry, kind) ==
    LET of_kind == SelectSeq(entry.links, LAMBDA a : a.kind = kind)
    IN  [i \in 1..Len(of_kind) |-> of_kind[i].href]

\* C4: the link of a record is the DOI-style link of its entry when there
\* is one, else the registry-style link when there is one, else empty.
C4_LinkSelection ==
    PageReturned =>
        /\ Len(papers) = Len(response.entries)
        /\ \A i \in 1..Len(papers) :
             LET doi == HrefsOf(response.entries[i], "doi")
                 rec == HrefsOf(response.entries[i], "rec")
             IN  papers[i].link = IF doi # <<>> THEN doi[1]
                                  ELSE IF rec # <<>> THEN rec[1]
                                  ELSE <<>>

\* the three cases on one page: both kinds (the registry link first), the
\* registry kind alone, neither
C4_Witness ==
    /\ PageReturned
    /\ \E i \in 1..Len(papers) :
         /\ HrefsOf(response.entries[i], "doi") # <<>>
         /\ response.entries[i].links[1].kind = "rec"
         /\ papers[i].link = DoiHref
    /\ \E i \in 1..Len(papers) :
         /\ HrefsOf(response.entries[i], "doi") = <<>>
         /\ papers[i].link = RecHref

\* C5 as claimed: a page of K entries gives K records, each with non-empty
\* title, authors, year and conference, the conference and the year those
\* of the request.
C5_RecordsComplete ==
    PageReturned =>
        /\ Len(papers) = Len(response.entries)
        /\ \A i \in 1..Len(papers) :
             /\ papers[i].title # <<>>
             /\ papers[i].authors # <<>>
             /\ papers[i].year # <<>>
             /\ papers[i].conference # <<>>
             /\ papers[i].conference = CONFERENCE_CONFIGS[conf_key].name
             /\ papers[i].year = str(year)

\* every title span and author-name span the entry has holds more than
\* white space
SpansHoldText(entry) ==
    /\ entry.title.present => \E k \in 1..Len(entry.title.text) : ~IsSpace(entry.title.text[k])
    /\ \A j \in 1..Len(entry.authors) :
         entry.authors[j].present =>
             \E k \in 1..Len(entry.authors[j].text) : ~IsSpace(entry.authors[j].text[k])

\* C5 amended: a page of K entries gives K records, each with the
\* conference and the year of the request, both non-empty; the title and
\* the authors are non-empty when the spans of the entry hold text.
C5_RecordsCompleteAmended ==
    PageReturned =>
        /\ Len(papers) = Len(response.entries)
        /\ \A i \in 1..Len(papers) :
             /\ papers[i].year # <<>>
             /\ papers[i].conference # <<>>
             /\ papers[i].conference = CONFERENCE_CONFIGS[conf_key].name
             /\ papers[i].year = str(year)
             /\ SpansHoldText(response.entries[i]) =>
                  /\ papers[i].title # <<>>
                  /\ papers[i].authors # <<>>

\* a page of two entries, one without a title span, one without authors
C5_Witness ==
    /\ PageReturned
    /\ Len(papers) = 2
    /\ \E i \in 1..Len(papers) :
         ~response.entries[i].title.present /\ papers[i].title = UNKNOWN_TITLE
    /\ \E i \in 1..Len(papers) :
         response.entries[i].authors = <<>> /\ papers[i].authors = UNKNOWN_AUTHORS

(***************************************************************************)
(* The run of main: what process_conference leaves behind, and the         *)
(* requests it sends.                                                      *)
(***************************************************************************)
\* process_conference has returned for the conference before conf_idx
ConferenceReturned == pc = "main" /\ conf_idx > 1

RECURSIVE SumOver(_, _)
SumOver(f, S) ==
    IF S = {} THEN 0
    ELSE LET x == CHOOSE x \in S : TRUE
         IN  f[x] + SumOver(f, S \ {x})

\* the entries the site served for the conference, and the years with some
ServedTotal == SumOver(served, DOMAIN served)
YearsWithEntries == {y \in DOMAIN served : served[y] > 0}

DataRows(file) == Len(CsvRead(file)) - 1

YearCountMatchesServed ==
    /\ DOMAIN year_count = {str(y) : y \in YearsWithEntries}
    /\ \A y \in YearsWithEntries : year_count[str(y)] = served[y]

ForecastSkipped == report.forecast = "skipped" /\ ~out.prediction.written

\* C3 as claimed: whatever the fetches gave, the CSV file has one data row
\* per entry fetched, the Year Count Map counts the entries of each year
\* that had some, and there is no forecast with fewer than two such years.
C3_Outputs ==
    ConferenceReturned =>
        /\ out.csv.written
        /\ DataRows(out.csv) = ServedTotal
        /\ YearCountMatchesServed
        /\ Cardinality(YearsWithEntries) < 2 => ~out.prediction.written

\* C3 amended: with no entry at all process_conference returns before it
\* writes or computes anything; with some, the CSV file (when it could be
\* written) has one data row per entry, the Year Count Map counts the
\* entries of each year that had some, and the forecast is skipped with
\* fewer than two such years.
C3_OutputsAmended ==
    ConferenceReturned =>
        /\ ServedTotal = 0 =>
             /\ out = FreshOutput
             /\ report = NoReport
             /\ year_count = <<>>
        /\ ServedTotal > 0 =>
             /\ "csv" \in report.attempted
             /\ out.csv.written = ("csv" \notin report.logged)
             /\ out.csv.written => DataRows(out.csv) = ServedTotal
             /\ YearCountMatchesServed
             /\ Cardinality(YearsWithEntries) < 2 => ForecastSkipped
             /\ Cardinality(YearsWithEntries) >= 2 => report.forecast # "skipped"

\* a year with no entry, a year with two, and nothing else
C3_Witness ==
    /\ ConferenceReturned
    /\ \E y, z \in DOMAIN served : served[y] = 0 /\ served[z] = 2
    /\ ServedTotal = 2
    /\ year_count = (str(CHOOSE z \in DOMAIN served : served[z] = 2) :> 2)
    /\ out.csv.written
    /\ DataRows(out.csv) = 2
    /\ ForecastSkipped

\* the artifacts the data at hand call for
ArtifactsDue ==
    {"trend"}
        \cup (IF word_freq # <<>> THEN {"bar", "keywords"} ELSE {})
        \cup (IF word_freq # <<>> /\ wordcloud_available THEN {"wordcloud"} ELSE {})
        \cup (IF Cardinality(YearsWithEntries) >= 2 THEN {"prediction"} ELSE {})

\* C6: a failure of one reporting artifact is logged and skips that
\* artifact alone: every artifact due is attempted, and the run goes on.
C6_BestEffort ==
    (ConferenceReturned /\ ServedTotal > 0) =>
        /\ ArtifactsDue \subseteq report.attempted
        /\ report.logged \subseteq report.attempted

\* the years process_conference fetches for a conference, ascending
FetchedYears(key) ==
    LET cfg == CONFERENCE_CONFIGS[key]
    IN  SelectSeq([i \in 1..(cfg.end_year - cfg.start_year + 1) |->
                      cfg.start_year + i - 1],
                  LAMBDA y : key # "iccv" \/ y % 2 = 1)

RECURSIVE Flatten(_)
Flatten(ss) == IF ss = <<>> THEN <<>> ELSE ss[1] \o Flatten(Tail(ss))

\* one request and one delay per conference and year, in this order
ExpectedLog ==
    Flatten([k \in 1..Len(ConfKeys) |->
        Flatten([j \in 1..Len(FetchedYears(ConfKeys[k])) |->
            <<<<"GET", ConfKeys[k], FetchedYears(ConfKeys[k])[j]>>,
              <<"sleep", SLEEP_SECONDS>>>>])])

IsPrefix(s, t) == Len(s) <= Len(t) /\ SubSeq(t, 1, Len(s)) = s

\* C7: the requests are those of ExpectedLog, one per conference and year,
\* in order, each followed by the delay, whatever the earlier ones gave; a
\* failed request adds no record; and the run ends, with every request sent.
C7_OneFetchPerYear ==
    /\ [](IsPrefix(fetch_log, ExpectedLog) /\ Len(all_papers) = ServedTotal)
    /\ [](pc = "done" => fetch_log = ExpectedLog)
    /\ <>(pc = "done")

\* the run has ended after a failed request and a conference without record
C7_Witness ==
    /\ pc = "done"
    /\ any_failed
    /\ any_skipped
    /\ fetch_log = ExpectedLog

(***************************************************************************)
(* extract_keywords on its own: at most MaxTitles records whose titles are *)
(* drawn from Titles (the first two are those the specification of the     *)
(* keyword analyzer quotes).                                               *)
(***************************************************************************)
MaxTitles == 2

DeepLearningForX == <<"D", "e", "e", "p", " ", "L", "e", "a", "r", "n", "i", "n", "g", " ", "f", "o", "r", " ", "X">>
DeepLearningForY == <<"d", "e", "e", "p", " ", "l", "e", "a", "r", "n", "i", "n", "g", " ", "F", "O", "R", " ", "Y">>

Titles ==
    {<<"D", "e", "e", "p", " ", "L", "e", "a", "r", "n", "i", "n", "g", " ", "f", "o", "r", " ", "X">>,
     <<"d", "e", "e", "p", " ", "l", "e", "a", "r", "n", "i", "n", "g", " ", "F", "O", "R", " ", "Y">>,
     <<>>,
     <<"A", "I">>,
     <<"D", "e", "e", "p", "-", "n", "e", "t", "s", ":", " ", "t", "h", "e", " ", "W", "e", "b">>,
     <<"o", "n", " ", "X">>,
     <<"w", "e", "b", "_", "2", " ", "a", "n", "d", " ", "W", "e", "b">>,
     <<"T", "h", "e", " ", " ", "d", "e", "e", "p", "\t", "w", "e", "b">>}

Titled(title) == [PaperOf(SampleEntry, "aaai", CONFERENCE_CONFIGS["aaai"].start_year)
                    EXCEPT !.title = title]

InitKeywords ==
    /\ pc = "call"
    /\ all_papers \in {[i \in DOMAIN ts |-> Titled(ts[i])] : ts \in SeqsUpTo(Titles, MaxTitles)}
    /\ conf_idx = 1
    /\ year = 0
    /\ year_count = <<>>
    /\ word_freq = <<>>
    /\ out = FreshOutput
    /\ report = NoReport
    /\ fetch_log = <<>>
    /\ served = <<>>
    /\ any_failed = FALSE
    /\ any_skipped = FALSE
    /\ wordcloud_available = FALSE
    /\ compensated = FALSE
    /\ response = Failure
    /\ papers = <<>>
    /\ rows = <<>>

\* line 384: one call of extract_keywords
CallExtractKeywords ==
    /\ pc = "call"
    /\ word_freq' = extract_keywords(all_papers)
    /\ pc' = "returned"
    /\ UNCHANGED <<conf_idx, year, all_papers, year_count, out, report, fetch_log,
                   served, any_failed, any_skipped, wordcloud_available,
                   compensated, response, papers, rows>>

NextKeywords == CallExtractKeywords

SpecKeywords == InitKeywords /\ [][NextKeywords]_vars

\* The tokens of a title: its maximal runs of characters that are neither
\* punctuation nor white space, in lower case.
TokenRuns(title) ==
    {r \in (1..Len(title)) \X (1..Len(title)) :
        /\ r[1] <= r[2]
        /\ \A k \in r[1]..r[2] : IsWordChar(title[k])
        /\ r[1] = 1 \/ ~IsWordChar(title[r[1] - 1])
        /\ r[2] = Len(title) \/ ~IsWordChar(title[r[2] + 1])}

TokenAt(title, r) == lower(SubSeq(title, r[1], r[2]))

TitleTokens == UNION {{TokenAt(all_papers[i].title, r) : r \in TokenRuns(all_papers[i].title)} :
                         i \in 1..Len(all_papers)}

Occurrences(word) ==
    SumSeq([i \in 1..Len(all_papers) |->
               Cardinality({r \in TokenRuns(all_papers[i].title) :
                               TokenAt(all_papers[i].title, r) = word})])

\* C9: the mapping holds no stop-word and no token of length <= 2, and
\* every other token of the titles with the number of its occurrences
\* across the titles, case ignored, punctuation read as a space.
C9_KeywordCounts ==
    pc = "returned" =>
        /\ \A k \in 1..Len(word_freq) :
             /\ word_freq[k][1] \in TitleTokens
             /\ \A j \in 1..Len(word_freq) : word_freq[j][1] = word_freq[k][1] => j = k
        /\ \A word \in TitleTokens :
             Freq(word_freq, word) = IF word \in STOP_WORDS \/ Len(word) <= 2 THEN 0
                                     ELSE Occurrences(word)

\* the two quoted titles: "deep" and "learning" twice each, no "for"
C9_Witness ==
    /\ pc = "returned"
    /\ [i \in 1..Len(all_papers) |-> all_papers[i].title]
           = <<DeepLearningForX, DeepLearningForY>>
    /\ word_freq = <<<<<<"d", "e", "e", "p">>, 2>>,
                     <<<<"l", "e", "a", "r", "n", "i", "n", "g">>, 2>>>>

(***************************************************************************)
(* save_to_csv on its own, and the file read back: at most MaxRows records *)
(* whose fields are drawn from the texts below, over no file or an older   *)
(* file of the same name.                                                  *)
(***************************************************************************)
MaxRows == 2

TitleTexts ==
    {<<"T">>,
     <<"a", ",", "b">>,
     <<"s", "a", "y", " ", "\"", "h", "i", "\"">>,
     <<"t", "w", "o", "\n", "l", "i", "n", "e", "s">>,
     <<>>}

AuthorTexts ==
    {<<"A", ";", " ", "B">>,
     <<"C", "\r">>}

LinkTexts ==
    {<<>>,
     <<"d", "o", "i", ".", "o", "r", "g", "/", "1">>}

Records ==
    {[title |-> t, authors |-> a, year |-> str(CONFERENCE_CONFIGS["aaai"].start_year),
      conference |-> CONFERENCE_CONFIGS["aaai"].name, link |-> l] :
        t \in TitleTexts, a \in AuthorTexts, l \in LinkTexts}

OlderFile == [written |-> TRUE, text |-> <<BOM, "o", "l", "d", "\r", "\n">>]

InitCsv ==
    /\ pc = "call"
    /\ all_papers \in SeqsUpTo(Records, MaxRows)
    /\ out \in {FreshOutput, [FreshOutput EXCEPT !.csv = OlderFile]}
    /\ conf_idx = 1
    /\ year = 0
    /\ year_count = <<>>
    /\ word_freq = <<>>
    /\ report = NoReport
    /\ fetch_log = <<>>
    /\ served = <<>>
    /\ any_failed = FALSE
    /\ any_skipped = FALSE
    /\ wordcloud_available = FALSE
    /\ compensated = FALSE
    /\ response = Failure
    /\ papers = <<>>
    /\ rows = <<>>

\* line 378: one call of save_to_csv
CallSaveToCsv ==
    /\ pc = "call"
    /\ \E csv_fails \in BOOLEAN :
         /\ out' = [out EXCEPT !.csv = save_to_csv(all_papers, csv_fails, out.csv)]
         /\ report' = [report EXCEPT
                          !.attempted = IF all_papers = <<>> THEN {} ELSE {"csv"},
                          !.logged = IF all_papers # <<>> /\ csv_fails THEN {"csv"} ELSE {}]
    /\ pc' = "saved"
    /\ UNCHANGED <<conf_idx, year, all_papers, year_count, word_freq, fetch_log,
                   served, any_failed, any_skipped, wordcloud_available,
                   compensated, response, papers, rows>>

\* the file read back with csv.reader
ReadBack ==
    /\ pc = "saved"
    /\ rows' = CsvRead(out.csv)
    /\ pc' = "read"
    /\ UNCHANGED <<conf_idx, year, all_papers, year_count, word_freq, out, report,
                   fetch_log, served, any_failed, any_skipped, wordcloud_available,
                   compensated, response, papers>>

NextCsv == CallSaveToCsv \/ ReadBack

SpecCsv == InitCsv /\ [][NextCsv]_vars

\* C8: N records written (the file could be opened) and read back are the
\* header and N rows holding the title, the authors, the year, the
\* conference and the link of each record, in this order; with no record
\* save_to_csv leaves the file as it was.
C8_RoundTrip ==
    /\ [](pc = "read" /\ all_papers # <<>> /\ "csv" \notin report.logged =>
            /\ Len(rows) = Len(all_papers) + 1
            /\ rows[1] = <<FieldText.title, FieldText.authors, FieldText.year,
                           FieldText.conference, FieldText.link>>
            /\ \A i \in 1..Len(all_papers) :
                 rows[i + 1] = <<all_papers[i].title, all_papers[i].authors,
                                 all_papers[i].year, all_papers[i].conference,
                                 all_papers[i].link>>)
    /\ [][pc = "call" /\ all_papers = <<>> => out' = out]_vars

\* two records read back over an older file, one title with a comma, a
\* quote or a line break in it
C8_Witness ==
    /\ pc = "read"
    /\ Len(all_papers) = 2
    /\ Len(rows) = 3
    /\ rows # CsvRead(OlderFile)
    /\ \E i \in 1..2 : NeedsQuotes(all_papers[i].title) /\ rows[i + 1][1] = all_papers[i].title

====
